---- MODULE Spec2Model ----
(***************************************************************************)
(* Model of anytree/iterators.py: the four tree iteration strategies       *)
(* PreOrderIter, PostOrderIter, LevelOrderIter and LevelGroupOrderIter.    *)
(* Each strategy is a Python generator; a traversal pass is one generator  *)
(* object, driven by the consumer one pull (next()) at a time.  The state  *)
(* of a pass is the generator's local variables and the line at which it   *)
(* is suspended.                                                           *)
(***************************************************************************)
EXTENDS Naturals, Sequences, FiniteSets, TLC

\* Largest number of nodes of the enumerated trees (the doctest fixture, with
\* nine nodes, is always among the inputs).
MaxNodes == 4

\* The interpreter's bound on the nesting of running frames
\* (sys.getrecursionlimit(), 1000 by default), scaled down: the doctest tree
\* needs five nested PostOrderIter.__next generators.
RecursionLimit == 6

\* Two generator objects obtained from the same component.
Passes == {1, 2}

Kinds == {"PreOrderIter", "PostOrderIter", "LevelOrderIter", "LevelGroupOrderIter"}

VARIABLES
    tree,       \* node -> tuple of its children (Node.children), static
    failing,    \* nodes whose children accessor raises when read
    kind,       \* the class of the constructed component
    self_node,  \* the component's attribute self.node
    gen,        \* pass -> generator state (suspension line and locals)
    out,        \* pass -> elements handed to the consumer so far
    queried     \* pass -> nodes whose .children the pass has read, in order

vars == <<tree, failing, kind, self_node, gen, out, queried>>

----------------------------------------------------------------------------
(* Sequences *)

Range(s) == {s[i] : i \in DOMAIN s}

RECURSIVE SortedSeq(_)
SortedSeq(S) ==
    IF S = {} THEN <<>>
    ELSE LET m == CHOOSE x \in S : \A y \in S : x <= y
         IN <<m>> \o SortedSeq(S \ {m})

Reverse(s) == [i \in 1..Len(s) |-> s[Len(s) + 1 - i]]

RECURSIVE Flatten(_)
Flatten(ss) == IF ss = <<>> THEN <<>> ELSE Head(ss) \o Flatten(Tail(ss))

----------------------------------------------------------------------------
(* The trees the components are bound to *)

\* Node(i, parent=p[i]) for i = 2..n, created after its parent.
ParentVectors(n) == {p \in [2..n -> 1..n] : \A i \in 2..n : p[i] < i}

\* The children tuples that result: siblings in creation order, which is
\* ascending, or descending when later-numbered siblings were created first.
Built(p, n, rev) ==
    [v \in 1..n |->
        LET s == SortedSeq({i \in 2..n : p[i] = v})
        IN IF rev THEN Reverse(s) ELSE s]

\* The doctest tree: f=1 b=2 a=3 d=4 c=5 e=6 g=7 i=8 h=9.
Fixture ==
    LET f == 1  b == 2  d == 4  g == 7  i == 8
    IN Built([n \in 2..9 |-> CASE n = 2 -> f [] n = 3 -> b [] n = 4 -> b
                                [] n = 5 -> d [] n = 6 -> d [] n = 7 -> f
                                [] n = 8 -> g [] n = 9 -> i],
             9, FALSE)

\* A tree as deep as the interpreter's recursion limit: a chain.
DeepChain == Built([n \in 2..RecursionLimit |-> n - 1], RecursionLimit, FALSE)

Trees ==
    {Fixture, DeepChain} \cup
    UNION {{Built(p, n, rev) : p \in ParentVectors(n), rev \in BOOLEAN} : n \in 1..MaxNodes}

Nodes == DOMAIN tree
NodeCount == Cardinality(Nodes)

RECURSIVE Closure(_, _, _)
Closure(t, S, k) ==
    LET more == S \cup UNION {Range(t[m]) : m \in S}
    IN IF k = 0 \/ more = S THEN S ELSE Closure(t, more, k - 1)

\* Proper descendants of n in the children relation t.
DescendantsIn(t, n) == Closure(t, Range(t[n]), Cardinality(DOMAIN t))

\* A children relation with a cycle: one node lists itself or one of its
\* ancestors among its children, first or last.
WithBackEdge(t, u, v, front) ==
    [t EXCEPT ![u] = IF front THEN <<v>> \o @ ELSE @ \o <<v>>]

Ancestors(t, u) == {w \in DOMAIN t : u \in DescendantsIn(t, w)}

CyclicGraphs ==
    UNION {UNION {{WithBackEdge(t, u, v, front) :
                        v \in {u} \cup Ancestors(t, u), front \in BOOLEAN} :
                  u \in DOMAIN t} : t \in Trees}

\* node.children
Children(n) == tree[n]

\* Reading node.children raises.
Raises(n) == n \in failing

Descendants(n) == DescendantsIn(tree, n)

Acyclic == \A n \in Nodes : n \notin Descendants(n)

----------------------------------------------------------------------------
(* Generator state *)

\* A generator object that has not run yet.  line is the line of the yield
\* the generator is suspended at (0: none).
Fresh ==
    [st |-> "created", line |-> 0, node |-> 0, stack |-> <<>>, frames |-> <<>>,
     children |-> <<>>, idx |-> 0, next_children |-> <<>>]

\* What one pull does: the generator's new state, the element it hands over
\* (a sequence of length 0 or 1) and the nodes whose children it read.
Result(g, y, q) == [gen |-> g, yield |-> y, q |-> q]

\* The generator returned (StopIteration); locals are its locals on return.
Exhausted(locals, q) ==
    Result([locals EXCEPT !.st = "exhausted", !.line = 0], <<>>, q)

\* An exception left the generator: its frame is released, the generator is
\* finished.
Failed(q) == Result([Fresh EXCEPT !.st = "failed"], <<>>, q)

\* next() on a finished generator raises StopIteration again.
Stopped(g) == Result(g, <<>>, <<>>)

\* The components wrap no read of node.children in try/except: what the
\* accessor raises leaves the generator.
SwallowsNothing(n) == FALSE
Propagates(n) == Raises(n)

----------------------------------------------------------------------------
(* PreOrderIter.__iter__, lines 48-53 *)

\* line 53 with the emitted node kept on the stack
SpliceKeepingHead(node_children, stack) == node_children \o stack
\* line 53 appending the children behind the rest of the stack
SpliceBehind(node_children, stack) == Tail(stack) \o node_children
\* line 53 skipping children that are already on the stack
SpliceUnseen(node_children, stack) ==
    SelectSeq(node_children, LAMBDA c : c \notin Range(stack)) \o Tail(stack)
\* line 53: stack = node.children + stack[1:]
Splice(node_children, stack) == node_children \o Tail(stack)

\* lines 50-52: while stack: node = stack[0]; yield node
PreOrderLoop(stack, q) ==
    IF stack # <<>>
    THEN Result([Fresh EXCEPT !.st = "suspended", !.line = 52,
                              !.node = Head(stack), !.stack = stack],
                <<Head(stack)>>, q)
    ELSE Exhausted([Fresh EXCEPT !.stack = stack], q)

PreOrderStep(g) ==
    CASE g.st = "created" -> PreOrderLoop(<<self_node>>, <<>>)
      [] g.st = "suspended" ->
            IF Propagates(g.node) THEN Failed(<<g.node>>)
            ELSE PreOrderLoop(Splice(Children(g.node), g.stack), <<g.node>>)
      [] OTHER -> Stopped(g)

----------------------------------------------------------------------------
(* PostOrderIter.__iter__ and __next, lines 89-97 *)

\* frames: the chain of __next generators, outermost first; each iterates
\* over its argument children and is at its i-th child.
Frame(children, i) == [children |-> children, i |-> i]

\* line 97 yielding the child that follows the current one
ChildAfter(frame) ==
    frame.children[IF frame.i < Len(frame.children) THEN frame.i + 1 ELSE frame.i]
\* line 97: yield child
ChildOf(frame) == frame.children[frame.i]

RECURSIVE PostOrderRun(_, _)
\* The innermost generator runs its for loop on from line 94.
PostOrderRun(frames, q) ==
    LET top == frames[Len(frames)] IN
    IF top.i < Len(top.children)
    THEN \* line 95: cls.__next(child.children), then iterate it
         LET child == top.children[top.i + 1]
             at_child == [frames EXCEPT ![Len(frames)].i = top.i + 1]
         IN IF Propagates(child) THEN Failed(q \o <<child>>)
            ELSE IF Len(frames) >= RecursionLimit
            THEN \* RecursionError leaves the generators
                 Result([Fresh EXCEPT !.st = "overflow"], <<>>, q \o <<child>>)
            ELSE PostOrderRun(Append(at_child, Frame(Children(child), 0)),
                              q \o <<child>>)
    ELSE \* the for loop is over: this generator returns to its caller
         LET rest == SubSeq(frames, 1, Len(frames) - 1) IN
         IF rest = <<>> THEN Exhausted([Fresh EXCEPT !.frames = rest], q)
         ELSE \* line 97 in the caller; lines 96 above it pass the node up
              Result([Fresh EXCEPT !.st = "suspended", !.line = 97,
                                   !.frames = rest],
                     <<ChildOf(rest[Len(rest)])>>, q)

PostOrderStep(g) ==
    CASE g.st = "created" -> PostOrderRun(<<Frame(<<self_node>>, 0)>>, <<>>)
      [] g.st = "suspended" -> PostOrderRun(g.frames, <<>>)
      [] OTHER -> Stopped(g)

----------------------------------------------------------------------------
(* LevelOrderIter.__iter__, lines 133-142 *)

\* line 141 assigning instead of extending
AccumulateOverwriting(next_children, child_children) == child_children
\* line 141 putting the children in front of the next level
AccumulateInFront(next_children, child_children) == child_children \o next_children
\* line 141: next_children += child.children
Accumulate(next_children, child_children) == next_children \o child_children

\* lines 137-140: while children: next_children = []; first child of the level
LevelOrderLoop(children, q) ==
    IF children # <<>>
    THEN Result([Fresh EXCEPT !.st = "suspended", !.line = 140,
                              !.children = children, !.idx = 1],
                <<children[1]>>, q)
    ELSE Exhausted([Fresh EXCEPT !.children = children], q)

LevelOrderStep(g) ==
    CASE g.st = "created" ->
            \* lines 134-135
            Result([Fresh EXCEPT !.st = "suspended", !.line = 135,
                                 !.node = self_node],
                   <<self_node>>, <<>>)
      [] g.st = "suspended" /\ g.line = 135 ->
            \* line 136
            IF Propagates(g.node) THEN Failed(<<g.node>>)
            ELSE LevelOrderLoop(Children(g.node), <<g.node>>)
      [] g.st = "suspended" /\ g.line = 140 ->
            LET child == g.children[g.idx] IN
            IF Propagates(child) THEN Failed(<<child>>)
            ELSE LET next_children == Accumulate(g.next_children, Children(child)) IN
                 IF g.idx < Len(g.children)
                 THEN Result([g EXCEPT !.idx = g.idx + 1,
                                       !.next_children = next_children],
                             <<g.children[g.idx + 1]>>, <<child>>)
                 ELSE \* line 142
                      LevelOrderLoop(next_children, <<child>>)
      [] OTHER -> Stopped(g)

----------------------------------------------------------------------------
(* LevelGroupOrderIter.__iter__, lines 182-189 *)

\* lines 184-185 yielding the group also when it is empty
LevelGroupLoopOnce(children, q) ==
    IF children # <<>> \/ q # <<>>
    THEN Result([Fresh EXCEPT !.st = "suspended", !.line = 185,
                              !.children = children],
                <<children>>, q)
    ELSE Exhausted([Fresh EXCEPT !.children = children], q)
\* lines 184-185: while children: yield children
LevelGroupLoop(children, q) ==
    IF children # <<>>
    THEN Result([Fresh EXCEPT !.st = "suspended", !.line = 185,
                              !.children = children],
                <<children>>, q)
    ELSE Exhausted([Fresh EXCEPT !.children = children], q)

RECURSIVE LevelGroupGather(_, _, _, _)
\* lines 187-188: for child in children: next_children = next_children + child.children
LevelGroupGather(children, i, next_children, q) ==
    IF i > Len(children) THEN LevelGroupLoop(next_children, q)
    ELSE IF Propagates(children[i]) THEN Failed(q \o <<children[i]>>)
    ELSE LevelGroupGather(children, i + 1,
                          next_children \o Children(children[i]),
                          q \o <<children[i]>>)

LevelGroupOrderStep(g) ==
    CASE g.st = "created" -> LevelGroupLoop(<<self_node>>, <<>>)
      [] g.st = "suspended" -> LevelGroupGather(g.children, 1, <<>>, <<>>)
      [] OTHER -> Stopped(g)

----------------------------------------------------------------------------
(* The state machine *)

Init ==
    /\ \/ /\ tree \in Trees
          /\ failing \in {{}} \cup {{n} : n \in DOMAIN tree}
       \/ /\ tree \in CyclicGraphs
          /\ failing = {}
    /\ kind \in Kinds
    /\ self_node = 1
    /\ gen = [p \in Passes |-> Fresh]
    /\ out = [p \in Passes |-> <<>>]
    /\ queried = [p \in Passes |-> <<>>]

\* The locals of a generator, kept on the component instead
StoreOnComponent(gens, p, g) == [r \in Passes |-> g]
\* The locals of a generator belong to its own frame.
StoreLocals(gens, p, g) == [gens EXCEPT ![p] = g]

\* The consumer pulls while it has seen at most one element per node; a
\* traversal of a tree ends before that.
Pulling(p) == Len(out[p]) <= NodeCount

Advance(p, r) ==
    /\ gen' = StoreLocals(gen, p, r.gen)
    /\ out' = [out EXCEPT ![p] = @ \o r.yield]
    /\ queried' = [queried EXCEPT ![p] = @ \o r.q]
    /\ UNCHANGED <<tree, failing, kind, self_node>>

\* next() on a generator of each class
PreOrderNext(p) ==
    kind = "PreOrderIter" /\ Pulling(p) /\ Advance(p, PreOrderStep(gen[p]))

PostOrderNext(p) ==
    kind = "PostOrderIter" /\ Pulling(p) /\ Advance(p, PostOrderStep(gen[p]))

LevelOrderNext(p) ==
    kind = "LevelOrderIter" /\ Pulling(p) /\ Advance(p, LevelOrderStep(gen[p]))

LevelGroupOrderNext(p) ==
    kind = "LevelGroupOrderIter" /\ Pulling(p)
        /\ Advance(p, LevelGroupOrderStep(gen[p]))

\* iter(component): the consumer drops its generator, wherever it is, and
\* takes a new one (lines 48, 89-90, 133, 182).
Iter(p) ==
    /\ gen[p].st # "created"
    /\ gen' = [gen EXCEPT ![p] = Fresh]
    /\ out' = [out EXCEPT ![p] = <<>>]
    /\ queried' = [queried EXCEPT ![p] = <<>>]
    /\ UNCHANGED <<tree, failing, kind, self_node>>

Pull(p) ==
    \/ PreOrderNext(p)
    \/ PostOrderNext(p)
    \/ LevelOrderNext(p)
    \/ LevelGroupOrderNext(p)

Next == \E p \in Passes : Pull(p) \/ Iter(p)

Spec == Init /\ [][Next]_vars

\* A consumer that keeps pulling from both generators of a component bound
\* to a tree whose accessor works: a for loop over each.
LiveInit == Init /\ tree \in Trees /\ failing = {}

LiveNext == \E p \in Passes : Pull(p)

LiveSpec == LiveInit /\ [][LiveNext]_vars /\ \A p \in Passes : WF_vars(Pull(p))

----------------------------------------------------------------------------
(* Properties: vocabulary *)

Finished == {"exhausted", "failed", "overflow"}

\* The component is bound to the root of a finite acyclic tree whose
\* children accessor works.
TreeRun == Acyclic /\ failing = {}

\* The nodes handed over by pass p, in order (the groups concatenated).
Emitted(p) == IF kind = "LevelGroupOrderIter" THEN Flatten(out[p]) ELSE out[p]

NoDuplicates(s) == \A i, j \in DOMAIN s : s[i] = s[j] => i = j

IsPrefix(s, t) == Len(s) <= Len(t) /\ s = SubSeq(t, 1, Len(s))

Pos(s, x) == CHOOSE i \in DOMAIN s : s[i] = x

Parent(n) == CHOOSE m \in Nodes : n \in Range(tree[m])

RECURSIVE Depth(_)
Depth(n) == IF n = self_node THEN 0 ELSE 1 + Depth(Parent(n))

Height == CHOOSE h \in 0..NodeCount :
            /\ \E n \in Nodes : Depth(n) = h
            /\ \A n \in Nodes : Depth(n) <= h

\* n's subtree: n and its descendants
Subtree(n) == {n} \cup Descendants(n)

RECURSIVE PreOrderRef(_)
\* the node, then the pre-order of each child in order
PreOrderRef(n) ==
    <<n>> \o Flatten([i \in 1..Len(tree[n]) |-> PreOrderRef(tree[n][i])])

RECURSIVE PostOrderRef(_)
\* the post-order of each child in order, then the node
PostOrderRef(n) ==
    Flatten([i \in 1..Len(tree[n]) |-> PostOrderRef(tree[n][i])]) \o <<n>>

\* a before b among siblings
SiblingsInOrder(a, b) ==
    /\ a # b /\ a # self_node /\ b # self_node
    /\ Parent(a) = Parent(b)
    /\ Pos(tree[Parent(a)], a) < Pos(tree[Parent(a)], b)

----------------------------------------------------------------------------
(* C1 *)

\* C1: on a finite acyclic tree, a pass of any of the four classes never
\* hands over a node twice nor a node outside the tree, and what an
\* exhausted pass has handed over is every node of the tree exactly once.
C1_EachNodeExactlyOnce ==
    TreeRun =>
        \A p \in Passes :
            /\ NoDuplicates(Emitted(p))
            /\ Range(Emitted(p)) \subseteq Nodes
            /\ gen[p].st = "exhausted" =>
                    /\ Range(Emitted(p)) = Nodes
                    /\ Len(Emitted(p)) = NodeCount

C1_Witness ==
    /\ TreeRun /\ tree = Fixture /\ kind = "LevelGroupOrderIter"
    /\ gen[1].st = "exhausted" /\ Len(Emitted(1)) = 9

----------------------------------------------------------------------------
(* C2 *)

\* C2: on a finite acyclic tree PreOrderIter hands over the prefix of the
\* recursive pre-order (node, then the pre-order of each child in order) and
\* all of it when exhausted; every node comes before each of its
\* descendants, an earlier sibling and its whole subtree before a later
\* sibling; the fixture gives f,b,a,d,c,e,g,i,h.
C2_PreOrder ==
    (TreeRun /\ kind = "PreOrderIter") =>
        \A p \in Passes :
            /\ IsPrefix(out[p], PreOrderRef(self_node))
            /\ gen[p].st = "exhausted" =>
                /\ out[p] = PreOrderRef(self_node)
                /\ \A n \in Nodes : \A m \in Descendants(n) :
                        Pos(out[p], n) < Pos(out[p], m)
                /\ \A a, b \in Nodes : SiblingsInOrder(a, b) =>
                        \A m \in Subtree(a) : Pos(out[p], m) < Pos(out[p], b)
                /\ tree = Fixture => out[p] = <<1, 2, 3, 4, 5, 6, 7, 8, 9>>

C2_Witness ==
    /\ TreeRun /\ tree = Fixture /\ kind = "PreOrderIter"
    /\ gen[1].st = "exhausted" /\ Len(out[1]) = 9

----------------------------------------------------------------------------
(* C3 *)

\* C3: on a finite acyclic tree what PostOrderIter has handed over is at
\* every moment a prefix of the recursive post-order, and all of it when
\* the pass is exhausted; a node is handed over only after all its
\* descendants, a node of a later sibling's subtree only after the whole
\* subtree of every earlier sibling; the bound root is handed over last and
\* by every exhausted pass; a single-node tree gives just the node; the
\* fixture gives a,c,e,d,b,h,i,g,f.
C3_PostOrder ==
    (TreeRun /\ kind = "PostOrderIter") =>
        \A p \in Passes :
            /\ IsPrefix(out[p], PostOrderRef(self_node))
            /\ \A j \in DOMAIN out[p] :
                /\ \A m \in Descendants(out[p][j]) :
                        \E i \in 1..(j - 1) : out[p][i] = m
                /\ \A a \in Nodes :
                        (\E b \in Nodes : SiblingsInOrder(a, b) /\ out[p][j] \in Subtree(b)) =>
                            \A m \in Subtree(a) : \E i \in 1..(j - 1) : out[p][i] = m
                /\ out[p][j] = self_node => j = Len(out[p])
            /\ gen[p].st = "exhausted" =>
                /\ out[p] = PostOrderRef(self_node)
                /\ out[p][Len(out[p])] = self_node
                /\ NodeCount = 1 => out[p] = <<self_node>>
                /\ tree = Fixture => out[p] = <<3, 5, 6, 4, 2, 9, 8, 7, 1>>

C3_Witness ==
    /\ TreeRun /\ tree = Fixture /\ kind = "PostOrderIter"
    /\ gen[1].st = "exhausted" /\ Len(out[1]) = 9

----------------------------------------------------------------------------
(* C4 *)

\* C4: on a finite acyclic tree LevelOrderIter hands over the root first and
\* no node before all nodes of smaller depth; among nodes of equal depth,
\* children of one parent come in that parent's children order and children
\* of different parents in the order of their parents; the fixture gives
\* f,b,g,a,d,i,c,e,h.
C4_LevelOrder ==
    (TreeRun /\ kind = "LevelOrderIter") =>
        \A p \in Passes :
            /\ out[p] # <<>> => out[p][1] = self_node
            /\ \A j \in DOMAIN out[p] : \A a \in Nodes :
                    Depth(a) < Depth(out[p][j]) =>
                        \E i \in 1..(j - 1) : out[p][i] = a
            /\ gen[p].st = "exhausted" =>
                /\ \A a, b \in Nodes \ {self_node} :
                        (Depth(a) = Depth(b) /\ Pos(out[p], a) < Pos(out[p], b)) =>
                            \/ SiblingsInOrder(a, b)
                            \/ Pos(out[p], Parent(a)) < Pos(out[p], Parent(b))
                /\ tree = Fixture => out[p] = <<1, 2, 7, 3, 4, 8, 5, 6, 9>>

C4_Witness ==
    /\ TreeRun /\ tree = Fixture /\ kind = "LevelOrderIter"
    /\ gen[1].st = "exhausted" /\ Len(out[1]) = 9

----------------------------------------------------------------------------
(* C5 *)

RECURSIVE LevelOrderDrain(_, _)
\* What a LevelOrderIter generator in state g hands over until it finishes.
LevelOrderDrain(g, acc) ==
    LET r == LevelOrderStep(g) IN
    IF r.gen.st \in Finished THEN acc \o r.yield
    ELSE LevelOrderDrain(r.gen, acc \o r.yield)

\* C5: on a finite acyclic tree the k-th group of LevelGroupOrderIter (k from
\* 0) holds exactly the nodes at depth k, each once; the first group is
\* (root,); no group is empty; the groups concatenated are a prefix of
\* LevelOrderIter's sequence for the same root and, when exhausted, equal to
\* it; a single-node tree gives one group; the fixture gives [f], [b,g],
\* [a,d,i], [c,e,h].
C5_LevelGroups ==
    (TreeRun /\ kind = "LevelGroupOrderIter") =>
        \A p \in Passes :
            /\ \A k \in DOMAIN out[p] :
                /\ out[p][k] # <<>>
                /\ Range(out[p][k]) = {n \in Nodes : Depth(n) = k - 1}
                /\ NoDuplicates(out[p][k])
            /\ out[p] # <<>> => out[p][1] = <<self_node>>
            /\ IsPrefix(Flatten(out[p]), LevelOrderDrain(Fresh, <<>>))
            /\ gen[p].st = "exhausted" =>
                /\ Flatten(out[p]) = LevelOrderDrain(Fresh, <<>>)
                /\ Len(out[p]) = Height + 1
                /\ NodeCount = 1 => out[p] = <<(<<self_node>>)>>
                /\ tree = Fixture =>
                        out[p] = << <<1>>, <<2, 7>>, <<3, 4, 8>>, <<5, 6, 9>> >>

C5_Witness ==
    /\ TreeRun /\ tree = Fixture /\ kind = "LevelGroupOrderIter"
    /\ gen[2].st = "exhausted" /\ Len(out[2]) = 4

----------------------------------------------------------------------------
(* C6 *)

StepOf(g) ==
    CASE kind = "PreOrderIter" -> PreOrderStep(g)
      [] kind = "PostOrderIter" -> PostOrderStep(g)
      [] kind = "LevelOrderIter" -> LevelOrderStep(g)
      [] kind = "LevelGroupOrderIter" -> LevelGroupOrderStep(g)

RECURSIVE LoneRun(_, _, _)
\* The states (generator, output so far) of one pass run alone on the
\* component, pulled for as long as the consumer pulls.
LoneRun(g, o, acc) ==
    IF g.st \in Finished \/ Len(o) > NodeCount THEN acc \cup {<<g, o>>}
    ELSE LET r == StepOf(g) IN LoneRun(r.gen, o \o r.yield, acc \cup {<<g, o>>})

\* C6: with the tree static, every pass of a component, whatever the other
\* pass does and however the pulls of the two interleave, and whether it is
\* the first generator or a later one, is at each moment in a state of a
\* pass run alone; so two exhausted passes have produced the same output.
C6_PassesIndependent ==
    /\ \A p \in Passes : <<gen[p], out[p]>> \in LoneRun(Fresh, <<>>, {})
    /\ (\A p \in Passes : gen[p].st \in Finished) => out[1] = out[2]

\* pass 1 was left mid-way, pass 2 ran to its end meanwhile
C6_Witness ==
    /\ tree = Fixture /\ failing = {}
    /\ gen[1].st = "suspended" /\ Len(out[1]) = 2
    /\ gen[2].st = "exhausted" /\ Len(out[2]) >= 4

----------------------------------------------------------------------------
(* C7 *)

\* What a pass hands over in all: |T| nodes, height(T)+1 groups.
Total == IF kind = "LevelGroupOrderIter" THEN Height + 1 ELSE NodeCount

\* C7 as claimed, in the form a finite run refutes (a pass that ended in
\* another way is never exhausted): on a finite acyclic tree a pass of any
\* of the four classes ends in no other way than exhausted, and it is
\* exhausted after exactly |T| nodes (height(T)+1 groups for
\* LevelGroupOrderIter) with its frontier empty.
C7_EndsExhausted ==
    TreeRun =>
        \A p \in Passes :
            /\ gen[p].st \in {"created", "suspended", "exhausted"}
            /\ Len(out[p]) <= Total
            /\ gen[p].st = "exhausted" =>
                /\ Len(out[p]) = Total
                /\ gen[p].stack = <<>> /\ gen[p].frames = <<>>
                /\ gen[p].children = <<>> /\ gen[p].next_children = <<>>

\* PostOrderIter nests one generator per level of the tree, one for the
\* list holding the root and one for the children of a leaf.
WithinRecursionLimit == kind = "PostOrderIter" => Height + 2 <= RecursionLimit

\* C7 where the code meets it: under a consumer that keeps pulling, every pass on a
\* finite acyclic tree is eventually exhausted, after exactly |T| nodes
\* (height(T)+1 groups) and with an empty frontier, and hands over nothing
\* afterwards, when the class is not PostOrderIter or the tree is shallower
\* than the interpreter's recursion limit.
C7_TerminatesWithinLimit ==
    /\ [](WithinRecursionLimit => C7_EndsExhausted)
    /\ [][\A p \in Passes :
            gen[p].st = "exhausted" => gen'[p] = gen[p] /\ out'[p] = out[p]]_vars
    /\ \A p \in Passes : <>(WithinRecursionLimit => gen[p].st = "exhausted")

\* the pull that ends a PostOrderIter pass on the deep chain
C7_Overflow ==
    /\ tree = DeepChain /\ kind = "PostOrderIter"
    /\ gen[1].st = "overflow" /\ out[1] = <<>>

C7_Witness ==
    /\ tree = Fixture /\ kind = "PostOrderIter"
    /\ \A p \in Passes : gen[p].st = "exhausted" /\ Len(out[p]) = 9

----------------------------------------------------------------------------
(* C8 *)

Cyclic == ~Acyclic /\ failing = {}

----------------------------------------------------------------------------
(* C9 *)

RECURSIVE LevelRef(_)
\* the nodes at depth k, in breadth-first order
LevelRef(k) ==
    IF k = 0 THEN <<self_node>>
    ELSE LET up == LevelRef(k - 1)
         IN Flatten([i \in 1..Len(up) |-> tree[up[i]]])

\* What a pass hands over when no read of children fails.
FailureFree ==
    CASE kind = "PreOrderIter" -> PreOrderRef(self_node)
      [] kind = "PostOrderIter" -> PostOrderRef(self_node)
      [] kind = "LevelOrderIter" -> Flatten([k \in 1..(Height + 1) |-> LevelRef(k - 1)])
      [] kind = "LevelGroupOrderIter" -> [k \in 1..(Height + 1) |-> LevelRef(k - 1)]

\* C9: a pass has failed exactly when it has read the children of a node
\* whose accessor raises, and that read is its last one (the failure
\* surfaces on the pull that makes the read, nothing is retried); what the
\* pass handed over before is a prefix of the failure-free sequence; a
\* failed pass hands over nothing more; the tree and the bound root never
\* change.
C9_FailurePropagates ==
    /\ [](\A p \in Passes :
            /\ gen[p].st = "failed" <=>
                    \E i \in DOMAIN queried[p] : queried[p][i] \in failing
            /\ \A i \in DOMAIN queried[p] :
                    queried[p][i] \in failing => i = Len(queried[p])
            /\ Acyclic => IsPrefix(out[p], FailureFree))
    /\ [][/\ tree' = tree /\ self_node' = self_node
          /\ \A p \in Passes :
                gen[p].st = "failed" =>
                    \/ gen'[p] = gen[p] /\ out'[p] = out[p]
                    \/ gen'[p] = Fresh /\ out'[p] = <<>>]_vars

C9_Witness ==
    /\ tree = Fixture /\ failing = {4}
    /\ gen[1].st = "failed" /\ Len(out[1]) >= 2
    /\ gen[2].st = "failed"

----------------------------------------------------------------------------
(* C10 *)

\* The frontier of a suspended pass: the pre-order stack, or the current
\* level followed by the next level accumulated so far.
Frontier(p) ==
    CASE kind = "PreOrderIter" -> gen[p].stack
      [] kind = "LevelOrderIter" ->
            (IF gen[p].line = 135 THEN <<gen[p].node>> ELSE gen[p].children)
                \o gen[p].next_children
      [] kind = "LevelGroupOrderIter" -> gen[p].children
      [] OTHER -> <<>>

\* The part of the frontier the pass has already taken its elements from:
\* the head of the stack, the current level up to the current child, the
\* current group.
HandedOver(p) ==
    CASE kind = "PreOrderIter" -> {gen[p].node}
      [] kind = "LevelOrderIter" ->
            IF gen[p].line = 135 THEN {gen[p].node}
            ELSE {gen[p].children[i] : i \in 1..gen[p].idx}
      [] kind = "LevelGroupOrderIter" -> Range(gen[p].children)
      [] OTHER -> {}

WithDescendants(S) == S \cup UNION {Descendants(n) : n \in S}

AtSuspension(p) ==
    TreeRun /\ kind # "PostOrderIter" /\ gen[p].st = "suspended"

\* C10 as claimed: at every suspension point the frontier holds only nodes
\* not yet handed over, and the nodes not yet handed over are exactly the
\* frontier's nodes and their descendants.
C10_Original ==
    \A p \in Passes :
        AtSuspension(p) =>
            /\ Range(Frontier(p)) \cap Range(Emitted(p)) = {}
            /\ Nodes \ Range(Emitted(p)) = WithDescendants(Range(Frontier(p)))

\* C10, amended: at every suspension point the frontier's nodes that have
\* been handed over are exactly those the pass took from it last (the head
\* of the pre-order stack; the current level up to the current child; the
\* current group), and the nodes not yet handed over are exactly the
\* frontier's nodes and their descendants less the nodes handed over.
C10_FrontierInvariant ==
    \A p \in Passes :
        AtSuspension(p) =>
            /\ Range(Frontier(p)) \cap Range(Emitted(p)) = HandedOver(p)
            /\ NoDuplicates(Frontier(p))
            /\ Nodes \ Range(Emitted(p)) =
                    WithDescendants(Range(Frontier(p))) \ Range(Emitted(p))

C10_Witness ==
    /\ TreeRun /\ tree = Fixture /\ kind = "LevelOrderIter"
    /\ gen[1].st = "suspended" /\ gen[1].line = 140 /\ gen[1].idx = 3
    /\ Len(gen[1].children) = 3 /\ Len(gen[1].next_children) = 2

====
